---- MODULE Spec2Model ----
(***************************************************************************)
(* Model of analyze-backtest.py: a one-shot verifier that reads a backtest *)
(* result document from standard input and prints a report.                *)
(*                                                                         *)
(* Units.  Money is held in half-cents (1 unit = 0.005), so the script's   *)
(* one-cent tolerance is 2 units and a difference below the tolerance can  *)
(* be non-zero.  totalReturnPct and maxDrawdown are whole percents.        *)
(* winRate is a fraction held in tenths (6 = 0.6).                         *)
(*                                                                         *)
(* out is the sequence of print calls made so far, each with the values    *)
(* handed to its format string.                                            *)
(***************************************************************************)
EXTENDS Integers, Sequences, FiniteSets, TLC

VARIABLES stdin, pc, status, out, equity, errors, i, net_pnl, issues

vars == <<stdin, pc, status, out, equity, errors, i, net_pnl, issues>>

\* ---------------------------------------------------------------- bounds
MaxTrades == 11

\* ------------------------------------------------------ program constants
Tol == 2            \* 0.01 in half-cents
CheckLimit == 10    \* trades[:10]
DetailLimit == 3    \* i < 3
MaxReturn == 100
MinWinRate == 20
MaxWinRate == 80
MaxDD == 50

\* ---------------------------------------------------------------- helpers
Abs(x) == IF x < 0 THEN -x ELSE x

Min(a, b) == IF a < b THEN a ELSE b

\* dict.get(k, default)
Get(d, k, default) == IF k \in DOMAIN d THEN d[k] ELSE default

NoFields == [k \in {} |-> 0]

\* ------------------------------------------------------- the parsed input
data == stdin.fields

initial_equity == Get(data, "initialEquity", 0)
final_equity == Get(data, "finalEquity", 0)
total_return_pct == Get(data, "totalReturnPct", 0)
trades == Get(data, "trades", <<>>)
performance == Get(data, "performance", NoFields)
max_dd == Get(data, "maxDrawdown", 0)
equity_curve == Get(data, "equityCurve", <<>>)

\* performance.get('winRate', 0) * 100, the fraction being held in tenths
win_rate == Get(performance, "winRate", 0) * 10

\* ------------------------------------------------- per-trade recomputation
RawPnl(t) ==
    IF Get(t, "side", "BUY") = "SELL"
    THEN (Get(t, "exitPrice", 0) - Get(t, "entryPrice", 0)) * Get(t, "size", 0)
    ELSE (Get(t, "entryPrice", 0) - Get(t, "exitPrice", 0)) * Get(t, "size", 0)

NetPnlWithSlippage(t) == RawPnl(t) - Get(t, "fees", 0) - Get(t, "slippage", 0)

NetPnl(t) == RawPnl(t) - Get(t, "fees", 0)

MatchInclusive(t) == Abs(NetPnl(t) - Get(t, "pnl", 0)) <= Tol

Match(t) == Abs(NetPnl(t) - Get(t, "pnl", 0)) < Tol

CheckedAll(ts) == ts

\* trades[:10]
Checked(ts) == SubSeq(ts, 1, Min(CheckLimit, Len(ts)))

\* i < 3, idx being the 1-based position
ShowDetail(idx, t) == idx - 1 < DetailLimit

RECURSIVE SumFees(_)
SumFees(ts) ==
    IF ts = <<>> THEN 0 ELSE Get(ts[1], "fees", 0) + SumFees(Tail(ts))

TotalFeesChecked == SumFees(Checked(trades))

\* sum(t.get('fees', 0) for t in trades)
total_fees == SumFees(trades)

CurveMatchesInclusive == Abs(equity_curve[Len(equity_curve)] - final_equity) <= Tol

CurveMatches == Abs(equity_curve[Len(equity_curve)] - final_equity) < Tol

\* if equity_curve:   (None and [] are both falsy)
CurveTruthy == "equityCurve" \notin stdin.nulls /\ Len(equity_curve) > 0

Line(tag) == [tag |-> tag]

Emit(lines) == out' = out \o lines

Abort == pc' = "aborted" /\ status' = "failure"

\* ------------------------------------------------------------ the inputs
Dollar == 100 * Tol   \* one unit of currency, the tolerance being a cent

\* Scenario A of the test scenarios: closes a long, reported pnl exact
TradeA == [entryPrice |-> 100 * Dollar, exitPrice |-> 110 * Dollar, size |-> 1,
           side |-> "SELL", fees |-> 100, pnl |-> 1900]
\* Scenario B: the same trade reported as 5.00
TradeB == [entryPrice |-> 100 * Dollar, exitPrice |-> 110 * Dollar, size |-> 1,
           side |-> "SELL", fees |-> 100, pnl |-> 1000]
\* closes a short, reported half a cent off
TradeShort == [entryPrice |-> 20, exitPrice |-> 24, size |-> 2, side |-> "BUY",
               fees |-> 3, slippage |-> 1, pnl |-> -10]
\* unrecognised side, no fees, reported exactly one cent off
TradeHold == [entryPrice |-> 24, exitPrice |-> 20, size |-> 2, side |-> "HOLD",
              fees |-> 0, pnl |-> 6]
\* side and fees absent
TradeNoSide == [entryPrice |-> 20, exitPrice |-> 24, size |-> 1, pnl |-> -4]
\* only the unused field present
TradeBare == [slippage |-> 1]
\* reported pnl had slippage taken off upstream
TradeSlip == [entryPrice |-> 20, exitPrice |-> 24, size |-> 2, side |-> "SELL",
              fees |-> 1, slippage |-> 2, pnl |-> 5]
\* lower-case side
TradeLower == [entryPrice |-> 20, exitPrice |-> 24, size |-> 1, side |-> "sell",
               fees |-> 0, pnl |-> 4]

TradeSet == {TradeA, TradeB, TradeShort, TradeHold, TradeNoSide, TradeBare,
             TradeSlip, TradeLower}

\* k copies of a followed by n - k copies of b
TwoPart(n, k, a, b) == [j \in 1..n |-> IF j <= k THEN a ELSE b]

TradeLists ==
    {TwoPart(n, k, a, b) : n \in 0..MaxTrades, k \in 0..MaxTrades,
                           a \in TradeSet, b \in TradeSet}

FewTradeLists ==
    {<<>>, <<TradeA>>, <<TradeB>>, <<TradeHold, TradeNoSide>>,
     TwoPart(MaxTrades, CheckLimit, TradeNoSide, TradeB)}

\* a mapping with the keys of ks, key k carrying v[k]
Pick(ks, v) == [k \in ks |-> v[k]]

ScalarKeys == {"initialEquity", "finalEquity", "totalReturnPct", "performance",
               "maxDrawdown", "equityCurve"}

ScenarioScalars ==
    [initialEquity |-> 1000 * Dollar, finalEquity |-> 1050 * Dollar,
     totalReturnPct |-> 5, performance |-> [winRate |-> 6, sharpe |-> 12],
     maxDrawdown |-> 3, equityCurve |-> <<1000 * Dollar, 1050 * Dollar>>]

FewScalars ==
    {Pick({}, ScenarioScalars), Pick(ScalarKeys, ScenarioScalars),
     Pick({"initialEquity", "finalEquity", "equityCurve"},
          [ScenarioScalars EXCEPT !.equityCurve = <<1049 * Dollar>>])}

ManyScalars ==
    {Pick(ks, [initialEquity |-> 1000 * Dollar, finalEquity |-> 1050 * Dollar,
               totalReturnPct |-> r, performance |-> p, maxDrawdown |-> d,
               equityCurve |-> c]) :
        ks \in {ScalarKeys, ScalarKeys \ {"finalEquity"},
                ScalarKeys \ {"equityCurve", "initialEquity"},
                ScalarKeys \ {"performance", "maxDrawdown"}},
        r \in {5, 100, 101, -101},
        p \in {[winRate |-> 6, sharpe |-> 12], [winRate |-> 9, sharpe |-> 30],
               [winRate |-> 1], [winRate |-> 2], [winRate |-> 8],
               [sharpe |-> 12]},
        d \in {3, 50, 60},
        c \in {<<>>, <<1000 * Dollar, 1050 * Dollar>>,
               <<1000 * Dollar, 1050 * Dollar + 1>>,
               <<1050 * Dollar - Tol>>, <<0>>}}

WithTrades(f, ts) == [k \in DOMAIN f \cup {"trades"} |->
                        IF k = "trades" THEN ts ELSE f[k]]

\* the documents that parse to a mapping
Objects ==
    {[kind |-> "object", fields |-> WithTrades(f, ts), nulls |-> {}] :
        f \in FewScalars, ts \in TradeLists}
    \cup
    {[kind |-> "object", fields |-> WithTrades(f, ts), nulls |-> {}] :
        f \in ManyScalars, ts \in FewTradeLists}
    \cup
    {[kind |-> "object", fields |-> f, nulls |-> {}] : f \in FewScalars}

\* mappings with one key present and null
WithNull ==
    {[kind |-> "object",
      fields |-> WithTrades(Pick(ScalarKeys \ {k}, ScenarioScalars), <<TradeA>>),
      nulls |-> {k}] : k \in ScalarKeys}

Inputs ==
    Objects \cup WithNull
    \cup {[kind |-> "invalid", fields |-> NoFields, nulls |-> {}],
          [kind |-> "array", fields |-> NoFields, nulls |-> {}]}

\* --------------------------------------------------------------- the run
Init ==
    /\ stdin \in Inputs
    /\ pc = "load"
    /\ status = "running"
    /\ out = <<>>
    /\ equity = 0
    /\ errors = 0
    /\ i = 0
    /\ net_pnl = 0
    /\ issues = <<>>

LoadAfterBanner ==
    /\ pc = "load"
    /\ Emit(<<Line("separator"), Line("banner"), Line("separator")>>)
    /\ IF stdin.kind = "invalid" THEN Abort
       ELSE pc' = "extract" /\ status' = status
    /\ UNCHANGED <<stdin, equity, errors, i, net_pnl, issues>>

\* data = json.load(sys.stdin)
Load ==
    /\ pc = "load"
    /\ IF stdin.kind = "invalid" THEN Abort
       ELSE pc' = "banner" /\ status' = status
    /\ UNCHANGED <<stdin, out, equity, errors, i, net_pnl, issues>>

Banner ==
    /\ pc = "banner"
    /\ Emit(<<Line("separator"), Line("banner"), Line("separator")>>)
    /\ pc' = "extract"
    /\ UNCHANGED <<stdin, status, equity, errors, i, net_pnl, issues>>

\* the five data.get calls; data.get does not exist unless data is a mapping
Extract ==
    /\ pc = "extract"
    /\ IF stdin.kind = "object" THEN pc' = "summary" /\ status' = status
       ELSE Abort
    /\ UNCHANGED <<stdin, out, equity, errors, i, net_pnl, issues>>

SummaryLine(field, value) == [tag |-> "summary", field |-> field, value |-> value]

\* the summary prints in order, each with the key whose null value makes
\* its formatting raise
SummaryPrints ==
    << [line |-> Line("summary_header"), needs |-> "none"],
       [line |-> SummaryLine("Initial Equity", initial_equity), needs |-> "initialEquity"],
       [line |-> SummaryLine("Final Equity", final_equity), needs |-> "finalEquity"],
       [line |-> SummaryLine("Total Return", total_return_pct), needs |-> "totalReturnPct"],
       [line |-> SummaryLine("Total Trades", Len(trades)), needs |-> "trades"],
       [line |-> SummaryLine("Win Rate", win_rate), needs |-> "performance"],
       [line |-> SummaryLine("Max Drawdown", max_dd), needs |-> "maxDrawdown"],
       [line |-> SummaryLine("Sharpe Ratio", Get(performance, "sharpe", 0)),
        needs |-> "performance"] >>

\* the prints that run before the first one that raises
Printed ==
    LET bad == {k \in 1..Len(SummaryPrints) : SummaryPrints[k].needs \in stdin.nulls}
        n == IF bad = {} THEN Len(SummaryPrints)
             ELSE (CHOOSE k \in bad : \A m \in bad : k <= m) - 1
    IN [k \in 1..n |-> SummaryPrints[k].line]

Summary ==
    /\ pc = "summary"
    /\ Emit(Printed)
    /\ IF Len(Printed) = Len(SummaryPrints) THEN pc' = "pnl" /\ status' = status
       ELSE Abort
    /\ UNCHANGED <<stdin, equity, errors, i, net_pnl, issues>>

PnlHeader ==
    /\ pc = "pnl"
    /\ Emit(<<Line("pnl_header")>>)
    /\ equity' = initial_equity
    /\ errors' = 0
    /\ i' = 0
    /\ pc' = "loop"
    /\ UNCHANGED <<stdin, status, net_pnl, issues>>

MismatchBlock(idx, t) ==
    << [tag |-> "mismatch", trade |-> idx],
       [tag |-> "mismatch_values", trade |-> idx, calculated |-> NetPnl(t),
        reported |-> Get(t, "pnl", 0), diff |-> Abs(NetPnl(t) - Get(t, "pnl", 0))] >>

DetailBlock(idx, t, eq) ==
    << [tag |-> "trade", trade |-> idx, side |-> Get(t, "side", "BUY")],
       [tag |-> "trade_prices", trade |-> idx, size |-> Get(t, "size", 0),
        entry |-> Get(t, "entryPrice", 0), exit |-> Get(t, "exitPrice", 0)],
       [tag |-> "trade_pnl", trade |-> idx, raw |-> RawPnl(t),
        fees |-> Get(t, "fees", 0), net |-> NetPnl(t)],
       [tag |-> "trade_reported", trade |-> idx, reported |-> Get(t, "pnl", 0),
        ok |-> Match(t)],
       [tag |-> "trade_equity", trade |-> idx, equity |-> eq] >>

EquityStepReported(eq, t) == eq + Get(t, "pnl", 0)

\* equity += net_pnl
EquityStep(eq, t) == eq + NetPnl(t)

\* one iteration of the loop over trades[:10]; i counts the iterations done
TradeStep ==
    /\ pc = "loop"
    /\ i < Len(Checked(trades))
    /\ LET idx == i + 1
           trade == Checked(trades)[idx]
       IN /\ net_pnl' = NetPnl(trade)
          /\ equity' = EquityStep(equity, trade)
          /\ errors' = IF Match(trade) THEN errors ELSE errors + 1
          /\ Emit((IF Match(trade) THEN <<>> ELSE MismatchBlock(idx, trade))
                  \o (IF ShowDetail(idx, trade)
                      THEN DetailBlock(idx, trade, EquityStep(equity, trade))
                      ELSE <<>>))
          /\ i' = idx
    /\ UNCHANGED <<stdin, pc, status, issues>>

\* the loop is exhausted: report the error counter
PnlResult ==
    /\ pc = "loop"
    /\ i = Len(Checked(trades))
    /\ Emit(<<IF errors = 0 THEN Line("pnl_verified")
              ELSE [tag |-> "pnl_mismatches", count |-> errors]>>)
    /\ pc' = "curve"
    /\ UNCHANGED <<stdin, status, equity, errors, i, net_pnl, issues>>

EquityCurveWithNotice ==
    /\ pc = "curve"
    /\ Emit(<<Line("curve_header")>>
            \o (IF CurveTruthy
                THEN << [tag |-> "curve_points", value |-> Len(equity_curve)],
                        [tag |-> "curve_start", value |-> equity_curve[1]],
                        [tag |-> "curve_end", value |-> equity_curve[Len(equity_curve)]],
                        [tag |-> "curve_expected", value |-> final_equity],
                        IF CurveMatches THEN Line("curve_match")
                        ELSE Line("curve_mismatch") >>
                ELSE <<Line("curve_empty")>>))
    /\ pc' = "realism_return"
    /\ UNCHANGED <<stdin, status, equity, errors, i, net_pnl, issues>>

\* the section header, then the check when the curve is non-empty
EquityCurve ==
    /\ pc = "curve"
    /\ Emit(<<Line("curve_header")>>
            \o (IF CurveTruthy
                THEN << [tag |-> "curve_points", value |-> Len(equity_curve)],
                        [tag |-> "curve_start", value |-> equity_curve[1]],
                        [tag |-> "curve_end", value |-> equity_curve[Len(equity_curve)]],
                        [tag |-> "curve_expected", value |-> final_equity],
                        IF CurveMatches THEN Line("curve_match")
                        ELSE Line("curve_mismatch") >>
                ELSE <<>>))
    /\ pc' = "realism_return"
    /\ UNCHANGED <<stdin, status, equity, errors, i, net_pnl, issues>>

\* one realism check: a failure appends a warning, a pass prints a line
Check(failed, name, value, before, next) ==
    /\ IF failed
       THEN /\ issues' = Append(issues, [warning |-> name, value |-> value])
            /\ Emit(before)
       ELSE /\ issues' = issues
            /\ Emit(before \o <<[tag |-> "ok", check |-> name, value |-> value]>>)
    /\ pc' = next
    /\ UNCHANGED <<stdin, status, equity, errors, i, net_pnl>>

RealismReturn ==
    /\ pc = "realism_return"
    /\ issues = <<>>
    /\ Check(Abs(total_return_pct) > MaxReturn, "return", total_return_pct,
             <<Line("realism_header")>>, "realism_winrate")

RealismWinRate ==
    /\ pc = "realism_winrate"
    /\ Check(win_rate < MinWinRate \/ win_rate > MaxWinRate, "winrate", win_rate,
             <<>>, "realism_trades")

RealismTrades ==
    /\ pc = "realism_trades"
    /\ Check(Len(trades) = 0, "trades", Len(trades), <<>>, "realism_drawdown")

RealismDrawdown ==
    /\ pc = "realism_drawdown"
    /\ Check(max_dd > MaxDD, "drawdown", max_dd, <<>>, "realism_fees")

RealismFees ==
    /\ pc = "realism_fees"
    /\ Check(total_fees = 0, "fees", total_fees, <<>>, "final")

AllPassedStrict == issues = <<>> /\ errors = 0

\* if issues: ... else: all checks passed
AllPassed == issues = <<>>

FinalSummary ==
    /\ pc = "final"
    /\ Emit(IF AllPassed THEN <<Line("all_passed")>>
            ELSE <<Line("issues_header")>>
                 \o [k \in 1..Len(issues) |-> [tag |-> "issue", issue |-> issues[k]]])
    /\ pc' = "close"
    /\ UNCHANGED <<stdin, status, equity, errors, i, net_pnl, issues>>

\* the closing separator; falling off the end of the script exits with 0
Close ==
    /\ pc = "close"
    /\ Emit(<<Line("separator")>>)
    /\ pc' = "done"
    /\ status' = "success"
    /\ UNCHANGED <<stdin, equity, errors, i, net_pnl, issues>>

Next ==
    \/ Load
    \/ Banner
    \/ Extract
    \/ Summary
    \/ PnlHeader
    \/ TradeStep
    \/ PnlResult
    \/ EquityCurve
    \/ RealismReturn
    \/ RealismWinRate
    \/ RealismTrades
    \/ RealismDrawdown
    \/ RealismFees
    \/ FinalSummary
    \/ Close

Spec == Init /\ [][Next]_vars

TypeOK == pc \in {"load", "banner", "extract", "summary", "pnl", "loop", "curve",
                  "realism_return", "realism_winrate", "realism_trades",
                  "realism_drawdown", "realism_fees", "final", "close", "done",
                  "aborted"}

\* ============================================================== properties
InLoop == pc = "loop"

AfterPnl == pc \in {"curve", "realism_return", "realism_winrate", "realism_trades",
                    "realism_drawdown", "realism_fees", "final", "close", "done"}

AfterCurve == AfterPnl /\ pc # "curve"

AfterRealism == pc \in {"final", "close", "done"}

AfterFinal == pc \in {"close", "done"}

Shown(tag) == \E k \in DOMAIN out : out[k].tag = tag

LinesOf(tag) == {k \in DOMAIN out : out[k].tag = tag}

Field(t, k) == IF k \in DOMAIN t THEN t[k] ELSE 0

\* the net P&L the description gives for a trade
ExpectedNet(t) ==
    IF "side" \in DOMAIN t /\ t.side = "SELL"
    THEN (Field(t, "exitPrice") - Field(t, "entryPrice")) * Field(t, "size")
         - Field(t, "fees")
    ELSE (Field(t, "entryPrice") - Field(t, "exitPrice")) * Field(t, "size")
         - Field(t, "fees")

ExpectedMismatch(t) == Abs(ExpectedNet(t) - Field(t, "pnl")) >= Tol

InputTrades == IF "trades" \in DOMAIN stdin.fields THEN stdin.fields.trades ELSE <<>>

InputInitialEquity == Field(stdin.fields, "initialEquity")

RECURSIVE NetSum(_)
NetSum(k) == IF k = 0 THEN 0 ELSE NetSum(k - 1) + ExpectedNet(InputTrades[k])

RECURSIVE FeeSum(_)
FeeSum(k) == IF k = 0 THEN 0 ELSE FeeSum(k - 1) + Field(InputTrades[k], "fees")

Flagged(idx) == \E k \in LinesOf("mismatch") : out[k].trade = idx

\* C1: the net P&L recomputed for every trade the loop processes is
\* (exitPrice - entryPrice) * size - fees when side is exactly "SELL" and
\* (entryPrice - exitPrice) * size - fees for any other or absent side;
\* slippage never enters it.  This holds of the loop's net_pnl and of every
\* net value the loop prints.
C1_NetPnlFormula ==
    /\ (InLoop /\ i >= 1) => net_pnl = ExpectedNet(InputTrades[i])
    /\ \A k \in LinesOf("trade_pnl") : out[k].net = ExpectedNet(InputTrades[out[k].trade])
    /\ \A k \in LinesOf("mismatch_values") :
          out[k].calculated = ExpectedNet(InputTrades[out[k].trade])

C1_Witness ==
    /\ InLoop /\ i = 2
    /\ Field(InputTrades[1], "slippage") # 0
    /\ "side" \in DOMAIN InputTrades[1] /\ InputTrades[1].side = "SELL"
    /\ "side" \notin DOMAIN InputTrades[2]
    /\ ExpectedNet(InputTrades[2]) # 0

\* C2: a processed trade is flagged as a mismatch iff
\* abs(net_pnl - reported pnl) >= 0.01; the error counter equals the number
\* of flagged trades; after the loop the verified line is printed exactly
\* when the counter is zero and otherwise the count is printed.
C2_MismatchFlagging ==
    /\ (InLoop \/ AfterPnl) =>
          /\ \A idx \in 1..i : Flagged(idx) <=> ExpectedMismatch(InputTrades[idx])
          /\ errors = Cardinality({idx \in 1..i : Flagged(idx)})
          /\ Cardinality(LinesOf("mismatch")) = errors
    /\ AfterPnl =>
          /\ Shown("pnl_verified") <=> errors = 0
          /\ Shown("pnl_mismatches") <=> errors # 0
          /\ \A k \in LinesOf("pnl_mismatches") : out[k].count = errors
          /\ Cardinality(LinesOf("pnl_verified") \cup LinesOf("pnl_mismatches")) = 1

C2_Witness ==
    /\ pc = "curve" /\ i = 2 /\ errors = 1
    /\ Abs(ExpectedNet(InputTrades[1]) - Field(InputTrades[1], "pnl")) = Tol - 1
    /\ Abs(ExpectedNet(InputTrades[2]) - Field(InputTrades[2], "pnl")) = Tol
    /\ Flagged(2) /\ ~Flagged(1)

DetailTags == {"trade", "trade_prices", "trade_pnl", "trade_reported", "trade_equity"}

\* C3: only the trades at positions 1..10 are checked: a trade at position
\* 11 or later changes neither the error counter nor the running equity and
\* is never flagged; the detail block is printed for exactly the trades at
\* positions 1..3 that exist, whether or not they match.
C3_FirstTenFirstThree ==
    /\ i <= 10
    /\ AfterPnl =>
          LET n == Min(Len(InputTrades), 10) IN
          /\ i = n
          /\ errors = Cardinality({idx \in 1..n : ExpectedMismatch(InputTrades[idx])})
          /\ equity = InputInitialEquity + NetSum(n)
          /\ \A k \in LinesOf("mismatch") \cup LinesOf("mismatch_values") :
                out[k].trade \in 1..n
          /\ \A tag \in DetailTags :
                /\ {out[k].trade : k \in LinesOf(tag)} = 1..Min(Len(InputTrades), 3)
                /\ Cardinality(LinesOf(tag)) = Min(Len(InputTrades), 3)

C3_Witness ==
    /\ pc = "curve"
    /\ Len(InputTrades) = 11
    /\ ExpectedMismatch(InputTrades[11]) /\ ExpectedNet(InputTrades[11]) # 0
    /\ errors = 0
    /\ \A idx \in 1..3 : \E k \in LinesOf("trade_reported") :
          out[k].trade = idx /\ out[k].ok

CurveNonEmpty ==
    "equityCurve" \in DOMAIN stdin.fields /\ Len(stdin.fields.equityCurve) > 0

CurveLast == stdin.fields.equityCurve[Len(stdin.fields.equityCurve)]

\* C4: the equity-curve check (point count, first value, last value,
\* expected end, match line) is printed iff equityCurve is non-empty, and
\* when printed it reports a match iff
\* abs(last element - finalEquity) < 0.01 and a mismatch otherwise.
C4_CurveCheck ==
    AfterCurve =>
       /\ \A tag \in {"curve_points", "curve_start", "curve_end", "curve_expected"} :
             Cardinality(LinesOf(tag)) = IF CurveNonEmpty THEN 1 ELSE 0
       /\ Cardinality(LinesOf("curve_match") \cup LinesOf("curve_mismatch"))
             = IF CurveNonEmpty THEN 1 ELSE 0
       /\ CurveNonEmpty =>
             /\ Shown("curve_match")
                   <=> Abs(CurveLast - Field(stdin.fields, "finalEquity")) < Tol
             /\ \A k \in LinesOf("curve_points") :
                   out[k].value = Len(stdin.fields.equityCurve)
             /\ \A k \in LinesOf("curve_start") : out[k].value = stdin.fields.equityCurve[1]
             /\ \A k \in LinesOf("curve_end") : out[k].value = CurveLast
             /\ \A k \in LinesOf("curve_expected") :
                   out[k].value = Field(stdin.fields, "finalEquity")

C4_Witness ==
    /\ pc = "realism_return"
    /\ CurveNonEmpty
    /\ Abs(CurveLast - Field(stdin.fields, "finalEquity")) = Tol - 1
    /\ Shown("curve_match")

PnlResultAt(k) == out[k].tag \in {"pnl_verified", "pnl_mismatches"}

\* C5 as stated: when equityCurve is empty or absent, no output line at all
\* lies between the P&L verification result and the realism check.
C5_NoLineAtAll ==
    (AfterPnl /\ ~CurveNonEmpty) =>
       \A k \in DOMAIN out :
          (PnlResultAt(k) /\ k < Len(out)) => out[k + 1].tag = "realism_header"

\* C5 amended: when equityCurve is empty or absent, the section's header is
\* the one line emitted between the P&L verification result and the realism
\* check; none of the check's lines is printed.
C5_HeaderOnly ==
    (AfterCurve /\ ~CurveNonEmpty) =>
       \A k \in DOMAIN out :
          PnlResultAt(k) =>
             /\ k < Len(out) /\ out[k + 1].tag = "curve_header"
             /\ k + 1 < Len(out) => out[k + 2].tag = "realism_header"

C5_Witness ==
    /\ pc = "realism_winrate"
    /\ "equityCurve" \notin DOMAIN stdin.fields
    /\ stdin.nulls = {}
    /\ Shown("curve_header") /\ Shown("realism_header")

CheckNames == {"return", "winrate", "trades", "drawdown", "fees"}

\* winRate * 100, the fraction being held in tenths
WinRatePct ==
    IF "performance" \in DOMAIN stdin.fields
    THEN Field(stdin.fields.performance, "winRate") * 10
    ELSE 0

\* the realism checks that fail on the input
FailedChecks ==
    {c \in CheckNames :
        \/ c = "return" /\ Abs(Field(stdin.fields, "totalReturnPct")) > 100
        \/ c = "winrate" /\ (WinRatePct < 20 \/ WinRatePct > 80)
        \/ c = "trades" /\ Len(InputTrades) = 0
        \/ c = "drawdown" /\ Field(stdin.fields, "maxDrawdown") > 50
        \/ c = "fees" /\ FeeSum(Len(InputTrades)) = 0}

\* C6: all five realism checks run; the issues list has one entry per failed
\* check among |totalReturnPct| > 100, winRate*100 outside [20, 80], zero
\* trades, maxDrawdown > 50 and a zero sum of fees over the entire trade
\* sequence; every check that passes prints a success line instead.
C6_RealismIssues ==
    AfterRealism =>
       /\ Len(issues) = Cardinality(FailedChecks)
       /\ \A c \in CheckNames :
             /\ (\E k \in DOMAIN issues : issues[k].warning = c) <=> c \in FailedChecks
             /\ (\E k \in LinesOf("ok") : out[k].check = c) <=> c \notin FailedChecks
       /\ Cardinality(LinesOf("ok")) + Len(issues) = 5

C6_Witness ==
    /\ pc = "final"
    /\ Len(InputTrades) > 10
    /\ FeeSum(10) = 0
    /\ FeeSum(Len(InputTrades)) # 0
    /\ \E k \in LinesOf("ok") : out[k].check = "fees"
    /\ Len(issues) = 3

\* C7 as stated: input that cannot be parsed is the only condition that
\* aborts the run; every input that parses runs to the closing separator and
\* ends with success status.
C7_OnlyParseFailureAborts ==
    pc = "aborted" => stdin.kind = "invalid"

\* C8: when the input is not valid structured data the run aborts at once
\* and nothing of the report, not even the banner, has been printed.
C8_NoPartialReport ==
    stdin.kind = "invalid" =>
       /\ out = <<>>
       /\ pc \in {"load", "aborted"}
       /\ pc = "aborted" => status = "failure"

C8_Witness == stdin.kind = "invalid" /\ pc = "aborted" /\ status = "failure"

\* C9: the running equity starts at initialEquity and after the k-th trade
\* (k <= 10) equals initialEquity plus the sum of the recomputed net P&L of
\* trades 1..k in order; it is never reset and never uses the reported pnl.
C9_RunningEquity ==
    /\ (InLoop \/ AfterPnl) =>
          /\ i <= 10
          /\ equity = InputInitialEquity + NetSum(i)
    /\ \A k \in LinesOf("trade_equity") :
          out[k].equity = InputInitialEquity + NetSum(out[k].trade)

C9_Witness ==
    /\ InLoop /\ i = 2
    /\ InputInitialEquity # 0
    /\ ExpectedMismatch(InputTrades[1])
    /\ ExpectedNet(InputTrades[2]) # 0
    /\ equity # InputInitialEquity

\* C10: the final summary depends only on the realism issues: the
\* all-checks-passed message is printed iff no realism check failed, also
\* when the P&L error counter is non-zero or the equity curve mismatches;
\* P&L and equity-curve mismatches never add an entry to the issues list.
C10_SummaryFromIssuesOnly ==
    /\ \A k \in DOMAIN issues : issues[k].warning \in CheckNames
    /\ AfterFinal =>
          /\ Shown("all_passed") <=> FailedChecks = {}
          /\ Shown("issues_header") <=> FailedChecks # {}
          /\ Cardinality(LinesOf("issue")) = Cardinality(FailedChecks)
          /\ \A k \in LinesOf("issue") : out[k].issue.warning \in FailedChecks

C10_Witness ==
    /\ pc = "done"
    /\ errors > 0
    /\ Shown("curve_mismatch")
    /\ Shown("all_passed")
====
